---- MODULE Spec2Model ----
(***************************************************************************)
(* Model of the movie agent workflow: MovieAgentGraph (graph/graph.py),   *)
(* its stage components (graph/nodes/*.py) and the GraphState record that *)
(* is threaded through them.                                               *)
(*                                                                         *)
(* Strings are sequences of words; the fixed text of an f-string is the    *)
(* sequence of its words and str(e) is the sequence of words of the        *)
(* exception's message, so that "contains" is containment of a contiguous  *)
(* subsequence.  An Optional value is a sequence of length at most one:    *)
(* None is <<>> and a present value x is <<x>>.                            *)
(***************************************************************************)
EXTENDS Integers, Sequences, FiniteSets, TLC

VARIABLES
    pc,           \* position of the current call
    state,        \* the GraphState of the current call
    arg,          \* the GraphState a stage method was called with
    outs,         \* what each external capability answers during this call
    trace,        \* the nodes executed so far, with the error flag on return
    writers,      \* the nodes that assigned final_response
    extCalls,     \* the stages whose external capability was invoked
    response,     \* the value returned by query
    engineExc,    \* the exception graph.invoke raised
    raisedExc,    \* the exception that left the call
    sessions,     \* app.sessions: session id -> creation time
    conversations,\* app.conversations: session id -> list of ChatMessage
    uuids,        \* the number of values uuid4() has handed out
    clock,        \* the number of times get_current_time() was read
    http,         \* the last request and the response sent for it
    posted,       \* per session, the exchanges answered with 200
    fmt,          \* the last call of format_history_for_llm
    runs          \* the calls of agent_graph.query in flight side by side

appVars == <<sessions, conversations, uuids, clock, http, posted, fmt, runs>>

vars == <<pc, state, arg, outs, trace, writers, extCalls, response, engineExc, raisedExc,
          sessions, conversations, uuids, clock, http, posted, fmt, runs>>

----------------------------------------------------------------------------
(* Bounds *)

MaxHistory == 2

----------------------------------------------------------------------------
(* Optional values and strings *)

None == <<>>

Some(x) == <<x>>

IsNone(o) == Len(o) = 0

\* Python truthiness of an Optional[str]: None and "" are falsy.
TruthyStr(o) == Len(o) = 1 /\ Len(o[1]) > 0

\* Python truthiness of an Optional[BaseModel]: any model instance is truthy.
TruthyObj(o) == Len(o) = 1

\* t in s
Contains(s, t) ==
    \E i \in 0..(Len(s) - Len(t)) : SubSeq(s, i + 1, i + Len(t)) = t

\* f"{x}" of an Optional[str]
FormatOpt(o) == IF IsNone(o) THEN <<"None">> ELSE o[1]

----------------------------------------------------------------------------
(* Inputs *)

Queries == { <<"top", "movies">>, <<"hello">> }

Turns == { [role |-> "user", content |-> <<"hi">>],
           [role |-> "assistant", content |-> <<"welcome">>] }

RECURSIVE SeqsUpTo(_, _)
SeqsUpTo(S, n) ==
    IF n = 0 THEN { <<>> }
    ELSE LET shorter == SeqsUpTo(S, n - 1)
         IN  shorter \cup { Append(s, x) : s \in { t \in shorter : Len(t) = n - 1 }, x \in S }

Histories == SeqsUpTo(Turns, MaxHistory)

\* str(e) of the exception an external capability raises
Details == { <<"timeout">>, <<"rate", "limit">> }

IntentType == { "RECOMMENDATION", "SPECIFIC_MOVIE", "GENRE_EXPLORATION",
                "COMPARISON", "TOP_RATED", "SIMILAR_MOVIES", "GENERAL_QUESTION" }

IntentClassification == [ intent : IntentType ]

Routes == { "intent_classification", "ask_clarification" }

ClarificationMessages == { <<>>, <<"Please", "specify">> }

RouterDecision == [ route : Routes, clarification_message : ClarificationMessages ]

ExtractedEntities == { [ rating_preference |-> Some(<<"highly", "rated">>) ],
                       [ rating_preference |-> None ] }

AnswerTexts == { <<"Here", "are", "the", "top", "rated", "movies">>, <<>> }

Failures == [ kind : {"fail"}, detail : Details ]

RouterOutcomes == [ kind : {"ok"}, val : RouterDecision ] \cup Failures

IntentOutcomes == [ kind : {"ok"}, val : IntentClassification ] \cup Failures

EntityOutcomes == [ kind : {"ok"}, val : ExtractedEntities ] \cup Failures

AgentOutcomes == [ kind : {"ok"}, val : AnswerTexts ] \cup Failures

Outcomes == [ router : RouterOutcomes, intent : IntentOutcomes,
              entity : EntityOutcomes, agent : AgentOutcomes ]

----------------------------------------------------------------------------
(* GraphState *)

GraphState(q, h, route, intent, entities, final, err) ==
    [ user_query |-> q, conversation_history |-> h, route |-> route,
      intent |-> intent, entities |-> entities,
      final_response |-> final, error |-> err ]

\* query's initial_state; a key the dict does not hold reads as None
InitialState(q, h) == GraphState(q, h, None, None, None, None, None)

----------------------------------------------------------------------------
(* Stage methods.  Each is a try block whose exceptions the except clause  *)
(* turns into the error field.                                             *)

Return(st, called) == [ kind |-> "return", st |-> st, called |-> called, detail |-> <<>> ]

Raise(st, called, d) == [ kind |-> "raise", st |-> st, called |-> called, detail |-> d ]

\* the exception is not handled and leaves the stage method
ExceptReraise(r, prefix) == r

\* except Exception as e: state["error"] = f"<prefix> {str(e)}"; return state
Except(r, prefix) ==
    IF r.kind = "raise"
    THEN Return([r.st EXCEPT !.error = Some(prefix \o r.detail)], r.called)
    ELSE r

RouteFailed == <<"Route", "extraction", "failed:">>

IntentFailed == <<"Intent", "classification", "failed:">>

EntityFailed == <<"Entity", "extraction", "failed:">>

AgentFailed == <<"Tool", "Calling", "generation/execution", "failed:">>

IntentMissing == <<"Intent", "must", "be", "classified", "before", "entity", "extraction">>

IntentOrEntitiesMissing ==
    <<"Intent", "and", "entities", "must", "be", "extracted", "before", "Agent", "Invocation">>

RouteQueryTry(st, out) ==
    IF out.kind = "fail"
    THEN Raise(st, TRUE, out.detail)
    ELSE LET routed == [st EXCEPT !.route = Some(out.val.route)]
         IN  IF Len(out.val.clarification_message) > 0
             THEN Return([routed EXCEPT !.final_response = Some(out.val.clarification_message)], TRUE)
             ELSE Return(routed, TRUE)

RouteQuery(st, out) == Except(RouteQueryTry(st, out), RouteFailed)

ClassifyIntentTry(st, out) ==
    IF out.kind = "fail"
    THEN Raise(st, TRUE, out.detail)
    ELSE Return([st EXCEPT !.intent = Some(out.val)], TRUE)

ClassifyIntent(st, out) == Except(ClassifyIntentTry(st, out), IntentFailed)

\* the intent is not checked before the external call
ExtractEntitiesTryUnchecked(st, out) ==
    IF out.kind = "fail"
    THEN Raise(st, TRUE, out.detail)
    ELSE Return([st EXCEPT !.entities = Some(out.val)], TRUE)

ExtractEntitiesTry(st, out) ==
    IF ~TruthyObj(st.intent)
    THEN Raise(st, FALSE, IntentMissing)
    ELSE IF out.kind = "fail"
         THEN Raise(st, TRUE, out.detail)
         ELSE Return([st EXCEPT !.entities = Some(out.val)], TRUE)

ExtractEntities(st, out) == Except(ExtractEntitiesTry(st, out), EntityFailed)

\* the call is refused only when both intent and entities are missing
GenerateAndExecuteTryBothMissing(st, out) ==
    IF ~TruthyObj(st.intent) /\ ~TruthyObj(st.entities)
    THEN Raise(st, FALSE, IntentOrEntitiesMissing)
    ELSE IF out.kind = "fail"
         THEN Raise(st, TRUE, out.detail)
         ELSE Return([st EXCEPT !.final_response = Some(out.val)], TRUE)

GenerateAndExecuteTry(st, out) ==
    IF ~TruthyObj(st.intent) \/ ~TruthyObj(st.entities)
    THEN Raise(st, FALSE, IntentOrEntitiesMissing)
    ELSE IF out.kind = "fail"
         THEN Raise(st, TRUE, out.detail)
         ELSE Return([st EXCEPT !.final_response = Some(out.val)], TRUE)

GenerateAndExecute(st, out) == Except(GenerateAndExecuteTry(st, out), AgentFailed)

----------------------------------------------------------------------------
(* MovieAgentGraph *)

IntentNode(st, out) == ClassifyIntent(st, out)

ErrorResponse == <<"I", "encountered", "an", "error", "processing", "your", "query:">>

\* the message does not carry the error
ErrorNodeWithoutDetail(st) ==
    [st EXCEPT !.final_response = Some(ErrorResponse)]

ErrorNode(st) ==
    [st EXCEPT !.final_response = Some(ErrorResponse \o FormatOpt(st.error))]

\* the test of the error field is inverted
CheckForErrorsInverted(st) == IF TruthyStr(st.error) THEN "continue" ELSE "error"

CheckForErrors(st) == IF TruthyStr(st.error) THEN "error" ELSE "continue"

\* the graph of _build_graph: START -> intent_classification
\*   -> (continue: END | error: error_handler) ; error_handler -> END
EntryNode == "intent_classification"

AfterIntent(st) == IF CheckForErrors(st) = "continue" THEN "END" ELSE "error_handler"

AfterError == "END"

SampleResponse == <<"sample", "response">>

\* the response is read from final_state, whatever it holds
QueryResponseFromState(final_state) == final_state.final_response

\* query, after graph.invoke returned final_state
QueryResponse(final_state) == Some(SampleResponse)

\* the exception is turned into an error response
QueryOnEngineErrorSwallowed(e) ==
    [ kind |-> "return", value |-> Some(ErrorResponse \o e), exc |-> None ]

\* query's except clause around graph.invoke: log and re-raise
QueryOnEngineError(e) == [ kind |-> "raise", value |-> None, exc |-> Some(e) ]

----------------------------------------------------------------------------
(* The module state of app.py when the process starts *)

\* a request and its response: op is the endpoint, sid the session id of the
\* path, body and limit the inputs, and the other fields the response
HttpExchange(op, sid, body, limit, status, detail, ids, user_message, assistant_response, timestamp, messages) ==
    [ op |-> op, sid |-> sid, body |-> body, limit |-> limit,
      status |-> status, detail |-> detail,
      session_id |-> ids.session_id, message_id |-> ids.message_id,
      user_message |-> user_message, assistant_response |-> assistant_response,
      timestamp |-> timestamp, messages |-> messages ]

NoBody == [ kind |-> "none", message |-> None ]

NoIds == [ session_id |-> 0, message_id |-> 0 ]

NoRequest ==
    HttpExchange("none", 0, NoBody, None, 0, None, NoIds, None, None, 0, <<>>)

NoFormat == [ arg |-> <<>>, after |-> <<>>, result |-> <<>> ]

RunIds == {1, 2}

\* a call of query that has not started
NoRun ==
    [ pc |-> "idle", state |-> InitialState(<<>>, <<>>), arg |-> InitialState(<<>>, <<>>),
      out |-> [kind |-> "fail", detail |-> <<"timeout">>], fault |-> None,
      response |-> None, exc |-> None, overlapped |-> FALSE ]

NoRuns == [ r \in RunIds |-> NoRun ]

AppStart ==
    /\ sessions = <<>>
    /\ conversations = <<>>
    /\ uuids = 0
    /\ clock = 0
    /\ http = NoRequest
    /\ posted = <<>>
    /\ fmt = NoFormat
    /\ runs = NoRuns

----------------------------------------------------------------------------
(* One call of MovieAgentGraph.query, node by node *)

NoOutcomes ==
    [ router |-> [kind |-> "fail", detail |-> <<"timeout">>],
      intent |-> [kind |-> "fail", detail |-> <<"timeout">>],
      entity |-> [kind |-> "fail", detail |-> <<"timeout">>],
      agent  |-> [kind |-> "fail", detail |-> <<"timeout">>] ]

Init ==
    /\ pc = "idle"
    /\ state = InitialState(<<>>, <<>>)
    /\ arg = InitialState(<<>>, <<>>)
    /\ outs = NoOutcomes
    /\ trace = <<>>
    /\ writers = {}
    /\ extCalls = {}
    /\ response = None
    /\ engineExc = None
    /\ raisedExc = None
    /\ AppStart

\* what one node execution leaves in the history variables
Executed(node, old, r) ==
    /\ trace' = Append(trace, [node |-> node, err |-> TruthyStr(r.st.error)])
    /\ writers' = IF r.st.final_response # old.final_response
                  THEN writers \cup {node} ELSE writers
    /\ extCalls' = IF r.called THEN extCalls \cup {node} ELSE extCalls

\* query is called: initial_state is built and handed to graph.invoke
Query ==
    /\ pc = "idle"
    /\ \E q \in Queries, h \in Histories, o \in Outcomes :
        /\ pc' = "invoke"
        /\ state' = InitialState(q, h)
        /\ arg' = InitialState(q, h)
        /\ outs' = o
        /\ trace' = <<>>
        /\ writers' = {}
        /\ extCalls' = {}
        /\ response' = None
        /\ engineExc' = None
        /\ raisedExc' = None
        /\ UNCHANGED appVars

\* graph.invoke raises: query's except clause handles it
EngineRaises ==
    /\ pc \in {"invoke", "intent_classification", "error_handler"}
    /\ \E d \in Details :
        /\ engineExc' = Some(d)
        /\ LET r == QueryOnEngineError(d)
           IN  /\ pc' = IF r.kind = "raise" THEN "raised" ELSE "returned"
               /\ response' = r.value
               /\ raisedExc' = r.exc
        /\ UNCHANGED <<state, arg, outs, trace, writers, extCalls>>
        /\ UNCHANGED appVars

\* START -> first node
GraphStart ==
    /\ pc = "invoke"
    /\ pc' = EntryNode
    /\ UNCHANGED <<state, arg, outs, trace, writers, extCalls, response, engineExc, raisedExc>>
    /\ UNCHANGED appVars

\* the intent_classification node and its conditional edge
IntentClassificationNode ==
    /\ pc = "intent_classification"
    /\ LET r == IntentNode(state, outs.intent)
       IN  /\ Executed("intent_classification", state, r)
           /\ state' = r.st
           /\ IF r.kind = "raise"
              THEN LET q == QueryOnEngineError(r.detail)
                   IN  /\ pc' = IF q.kind = "raise" THEN "raised" ELSE "returned"
                       /\ response' = q.value
                       /\ engineExc' = Some(r.detail)
                       /\ raisedExc' = q.exc
              ELSE /\ pc' = AfterIntent(r.st)
                   /\ UNCHANGED <<response, engineExc, raisedExc>>
    /\ UNCHANGED <<arg, outs>>
    /\ UNCHANGED appVars

\* the error_handler node and its edge to END
ErrorHandlerNode ==
    /\ pc = "error_handler"
    /\ LET r == Return(ErrorNode(state), FALSE)
       IN  /\ Executed("error_handler", state, r)
           /\ state' = r.st
    /\ pc' = AfterError
    /\ UNCHANGED <<arg, outs, response, engineExc, raisedExc>>
    /\ UNCHANGED appVars

\* graph.invoke returned final_state: query returns its response
QueryReturn ==
    /\ pc = "END"
    /\ pc' = "returned"
    /\ response' = QueryResponse(state)
    /\ UNCHANGED <<state, arg, outs, trace, writers, extCalls, engineExc, raisedExc>>
    /\ UNCHANGED appVars

Next ==
    \/ Query
    \/ EngineRaises
    \/ GraphStart
    \/ IntentClassificationNode
    \/ ErrorHandlerNode
    \/ QueryReturn

Spec == Init /\ [][Next]_vars

----------------------------------------------------------------------------
(* The stage methods called on their own, as a caller outside the graph    *)
(* may call them on any GraphState                                         *)

StageStates ==
    { GraphState(q, h, route, intent, entities, final, err) :
        q \in {<<"top", "movies">>}, h \in Histories,
        route \in {None},
        intent \in {None, Some([intent |-> "TOP_RATED"])},
        entities \in {None, Some([rating_preference |-> None])},
        final \in {None, Some(<<"Please", "specify">>)},
        err \in {None, Some(IntentFailed \o <<"timeout">>)} }

InitStages ==
    /\ pc = "unit_idle"
    /\ state = InitialState(<<>>, <<>>)
    /\ arg = InitialState(<<>>, <<>>)
    /\ outs = NoOutcomes
    /\ trace = <<>>
    /\ writers = {}
    /\ extCalls = {}
    /\ response = None
    /\ engineExc = None
    /\ raisedExc = None
    /\ AppStart

\* stage method `stage` was called on st and ended as r
Called(stage, st, r) ==
    /\ pc' = IF r.kind = "raise" THEN "unit_raised" ELSE "unit_returned"
    /\ arg' = st
    /\ state' = r.st
    /\ trace' = <<[node |-> stage, err |-> TruthyStr(r.st.error)]>>
    /\ writers' = IF r.st.final_response # st.final_response THEN {stage} ELSE {}
    /\ extCalls' = IF r.called THEN {stage} ELSE {}
    /\ raisedExc' = IF r.kind = "raise" THEN Some(r.detail) ELSE None
    /\ response' = None
    /\ engineExc' = None
    /\ UNCHANGED appVars

CallRouteQuery ==
    /\ pc = "unit_idle"
    /\ \E st \in StageStates, o \in RouterOutcomes :
        /\ outs' = [NoOutcomes EXCEPT !.router = o]
        /\ Called("router", st, RouteQuery(st, o))

CallClassifyIntent ==
    /\ pc = "unit_idle"
    /\ \E st \in StageStates, o \in IntentOutcomes :
        /\ outs' = [NoOutcomes EXCEPT !.intent = o]
        /\ Called("intent_classifier", st, ClassifyIntent(st, o))

CallExtractEntities ==
    /\ pc = "unit_idle"
    /\ \E st \in StageStates, o \in EntityOutcomes :
        /\ outs' = [NoOutcomes EXCEPT !.entity = o]
        /\ Called("entity_extractor", st, ExtractEntities(st, o))

CallGenerateAndExecute ==
    /\ pc = "unit_idle"
    /\ \E st \in StageStates, o \in AgentOutcomes :
        /\ outs' = [NoOutcomes EXCEPT !.agent = o]
        /\ Called("answer_generator", st, GenerateAndExecute(st, o))

NextStages ==
    \/ CallRouteQuery
    \/ CallClassifyIntent
    \/ CallExtractEntities
    \/ CallGenerateAndExecute

SpecStages == InitStages /\ [][NextStages]_vars

----------------------------------------------------------------------------
(* Properties of one call of query (Spec) *)

NodesRun == { trace[i].node : i \in 1..Len(trace) }

\* the nodes of the three stages that follow the router
NormalStageNodes == {"intent_classification", "entity_extraction", "answer_generation"}

\* the nodes that may assign final_response
ResponseWriters == {"routing", "answer_generation", "error_handler"}

RouterProceeds ==
    /\ outs.router.kind = "ok"
    /\ outs.router.val.route = "intent_classification"

RouterClarifies ==
    /\ outs.router.kind = "ok"
    /\ outs.router.val.route = "ask_clarification"

\* the prompt the clarification terminal falls back to (tests/test_graph.py)
ClarificationFallback == <<"Please", "ask", "a", "question">>

\* C1: when graph.invoke returns a final state, query returns exactly the
\* final_response field of that state.
C1_ReturnsFinalResponse ==
    pc = "returned" => response = state.final_response

\* C2: when the router proceeds and the intent classifier, the entity
\* extractor and the answer generator all succeed, query returns the answer
\* generator's text unchanged.
C2_SuccessReturnsAnswer ==
    ( /\ pc = "returned"
      /\ RouterProceeds
      /\ outs.intent.kind = "ok"
      /\ outs.entity.kind = "ok"
      /\ outs.agent.kind = "ok" )
    => response = Some(outs.agent.val)

\* C3: whatever the stages answer (success, or a failure captured inside a
\* stage), query returns a non-empty string; it raises only when graph.invoke
\* itself raised.
C3_NonEmptyResponse ==
    /\ pc = "returned" => TruthyStr(response)
    /\ pc = "raised" => engineExc # None

C3_Witness ==
    /\ pc = "returned"
    /\ outs.intent.kind = "fail"
    /\ TruthyStr(state.error)
    /\ TruthyStr(response)

\* C4: when the router answers the clarification route with a non-empty
\* message M, query returns exactly M and no intent classifier, entity
\* extractor or answer generator is executed.
C4_ClarificationReturned ==
    ( /\ pc = "returned"
      /\ RouterClarifies
      /\ Len(outs.router.val.clarification_message) > 0 )
    => /\ response = Some(outs.router.val.clarification_message)
       /\ NodesRun \cap NormalStageNodes = {}

\* C5: when the router answers the clarification route with an empty message,
\* query returns the non-empty generic fallback clarification prompt.
C5_ClarificationFallback ==
    ( /\ pc = "returned"
      /\ RouterClarifies
      /\ Len(outs.router.val.clarification_message) = 0 )
    => /\ TruthyStr(response)
       /\ Contains(response[1], ClarificationFallback)

\* C6: if a stage set the error field to E during the run, the response that
\* query returns contains E literally.
C6_ResponseContainsError ==
    ( pc = "returned" /\ TruthyStr(state.error) )
    => /\ TruthyStr(response)
       /\ Contains(response[1], state.error[1])

\* C7: once a node has returned with the error field set, every node executed
\* after it is the error handler, and the run does not end before the error
\* handler has executed.
C7_OnlyErrorHandlerAfterError ==
    /\ \A i \in 1..Len(trace) : \A j \in 1..Len(trace) :
          (i < j /\ trace[i].err) => trace[j].node = "error_handler"
    /\ ( pc \in {"END", "returned"} /\ TruthyStr(state.error) )
          => trace[Len(trace)].node = "error_handler"

C7_Witness ==
    /\ pc = "returned"
    /\ Len(trace) = 2
    /\ trace[1].node = "intent_classification"
    /\ trace[1].err
    /\ trace[2].node = "error_handler"

\* C8: in every run that returns, final_response was assigned by exactly one
\* of the router, the answer generator and the error handler.
C8_ExactlyOneWriter ==
    pc = "returned"
    => /\ Cardinality(writers) = 1
       /\ writers \subseteq ResponseWriters

\* C9: an exception raised by graph.invoke leaves query as it is: query
\* returns no response and the caller receives that exception.
C9_EngineErrorReraised ==
    engineExc # None
    => /\ pc = "raised"
       /\ response = None
       /\ raisedExc = engineExc

C9_Witness ==
    /\ pc = "raised"
    /\ engineExc # None
    /\ raisedExc = engineExc
    /\ NodesRun = {"intent_classification"}

----------------------------------------------------------------------------
(* Properties of the stage methods (SpecStages) *)

\* what the external capability of the stage that was called answered
StageOutcome ==
    CASE trace[1].node = "router" -> outs.router
      [] trace[1].node = "intent_classifier" -> outs.intent
      [] trace[1].node = "entity_extractor" -> outs.entity
      [] trace[1].node = "answer_generator" -> outs.agent

ExternalCallFailed ==
    /\ pc # "unit_idle"
    /\ extCalls # {}
    /\ StageOutcome.kind = "fail"

\* C10: no stage method raises; when its external call fails with detail D it
\* returns the state it was given with the error field set to a message that
\* contains D.
C10_StageCapturesFailure ==
    /\ pc # "unit_raised"
    /\ ExternalCallFailed
          => /\ pc = "unit_returned"
             /\ TruthyStr(state.error)
             /\ Contains(state.error[1], StageOutcome.detail)
             /\ state = [arg EXCEPT !.error = state.error]

C10_Witness ==
    /\ ExternalCallFailed
    /\ trace[1].node = "answer_generator"
    /\ pc = "unit_returned"
    /\ state.error = Some(AgentFailed \o <<"rate", "limit">>)

\* the stage method `stage` has been called
StageCalled(stage) == pc # "unit_idle" /\ trace[1].node = stage

\* C11 as stated: the entity extractor called on a state without intent sets
\* the error field to a message containing "intent" and does not call the
\* external capability.
C11_ErrorContainsLowercaseIntent ==
    ( StageCalled("entity_extractor") /\ ~TruthyObj(arg.intent) )
    => /\ TruthyStr(state.error)
       /\ Contains(state.error[1], <<"intent">>)
       /\ extCalls = {}

\* C11 as amended: the entity extractor called on a state without intent sets
\* the error field to "Entity extraction failed: Intent must be classified
\* before entity extraction", which contains "Intent" with a capital I, and
\* does not call the external capability.
C11_IntentAbsentError ==
    ( StageCalled("entity_extractor") /\ ~TruthyObj(arg.intent) )
    => /\ pc = "unit_returned"
       /\ state.error = Some(EntityFailed \o IntentMissing)
       /\ Contains(state.error[1], <<"Intent">>)
       /\ extCalls = {}

C11_Witness ==
    /\ StageCalled("entity_extractor")
    /\ ~TruthyObj(arg.intent)
    /\ IsNone(arg.error)
    /\ state.error = Some(EntityFailed \o IntentMissing)

\* C12: the answer generator called on a state in which intent or entities
\* (or both) are absent sets the error field and does not call the external
\* capability.
C12_MissingInputError ==
    ( StageCalled("answer_generator")
      /\ (~TruthyObj(arg.intent) \/ ~TruthyObj(arg.entities)) )
    => /\ pc = "unit_returned"
       /\ state.error = Some(AgentFailed \o IntentOrEntitiesMissing)
       /\ extCalls = {}

C12_Witness ==
    /\ StageCalled("answer_generator")
    /\ TruthyObj(arg.intent)
    /\ ~TruthyObj(arg.entities)
    /\ IsNone(arg.error)
    /\ TruthyStr(state.error)
    /\ extCalls = {}

----------------------------------------------------------------------------
(* app.py: the session store and its three endpoints.  Each handler is an  *)
(* async function without an await, so a request is handled in one step.   *)

MaxSessions == 2

MaxUuids == 6

MinMessageLength == 1

DefaultLimit == 10

MinLimit == 1

MaxLimit == 100

Messages == { <<"hi">>, <<"top", "movies">> }

\* no body, {}, {"message": ""}, {"message": m}
Bodies ==
    { NoBody, [kind |-> "json", message |-> None], [kind |-> "json", message |-> Some(<<>>)] }
    \cup { [kind |-> "json", message |-> Some(m)] : m \in Messages }

\* limit absent, or ?limit=n
Limits == { None } \cup { Some(n) : n \in {0, 1, 2, 3, 100, 101} }

AppIntentOutcomes ==
    { [kind |-> "ok", val |-> [intent |-> "TOP_RATED"]],
      [kind |-> "fail", detail |-> <<"timeout">>] }

\* graph.invoke raising, or not
EngineFaults == { None } \cup { Some(d) : d \in Details }

\* uuid4(): a value no earlier call returned (a collision of two random
\* 122-bit values is left out)
Uuid4(issued) == issued + 1

GetCurrentTime(reads) == reads + 1

ChatMessage(message_id, role, content, timestamp) ==
    [ message_id |-> message_id, role |-> role, content |-> content,
      timestamp |-> timestamp ]

\* the request model: the body parameter defaults to None, message is required
\* and has min_length=1
ValidateBody(body) ==
    IF body.kind = "none" THEN [ ok |-> TRUE, request |-> None ]
    ELSE IF IsNone(body.message) THEN [ ok |-> FALSE, request |-> None ]
    ELSE IF Len(body.message[1]) < MinMessageLength THEN [ ok |-> FALSE, request |-> None ]
    ELSE [ ok |-> TRUE, request |-> Some([message |-> body.message[1]]) ]

\* Query(10, ge=1, le=100)
ValidateLimit(limit) ==
    IF IsNone(limit) THEN [ ok |-> TRUE, limit |-> DefaultLimit ]
    ELSE IF limit[1] < MinLimit \/ limit[1] > MaxLimit THEN [ ok |-> FALSE, limit |-> 0 ]
    ELSE [ ok |-> TRUE, limit |-> limit[1] ]

RECURSIVE FormatLoop(_, _, _)
FormatLoop(history, i, formatted_history) ==
    IF i > Len(history) THEN formatted_history
    ELSE FormatLoop(history, i + 1,
                    Append(formatted_history,
                           [role |-> history[i].role, content |-> history[i].content]))

\* the last turn is left out
FormatHistoryForLlmShort(history) ==
    [ arg |-> history, after |-> history,
      result |-> FormatLoop(SubSeq(history, 1, Len(history) - 1), 1, <<>>) ]

\* format_history_for_llm: the list it was given, that list after the call,
\* and the list it returns
FormatHistoryForLlm(history) ==
    [ arg |-> history, after |-> history, result |-> FormatLoop(history, 1, <<>>) ]

\* graph.invoke on the graph of _build_graph
GraphInvoke(st, o) ==
    LET r == IntentNode(st, o.intent)
    IN  IF r.kind = "raise" THEN r
        ELSE IF AfterIntent(r.st) = "error_handler"
             THEN Return(ErrorNode(r.st), r.called)
             ELSE r

\* MovieAgentGraph.query as one call
QueryCall(q, h, o, fault) ==
    LET initial_state == InitialState(q, h)
        g == GraphInvoke(initial_state, o)
        failure == IF fault # None THEN fault
                   ELSE IF g.kind = "raise" THEN Some(g.detail) ELSE None
        handled == QueryOnEngineError(failure[1])
    IN  IF failure # None
        THEN [ kind |-> handled.kind, value |-> handled.value, exc |-> handled.exc,
               engine |-> failure, initial |-> initial_state, final |-> initial_state ]
        ELSE [ kind |-> "return", value |-> QueryResponse(g.st), exc |-> None,
               engine |-> None, initial |-> initial_state, final |-> g.st ]

\* the history is read as empty whatever is stored
ConversationOfEmpty(convs, sid) == <<>>

\* conversations.get(session_id, [])
ConversationOf(convs, sid) == IF sid \in DOMAIN convs THEN convs[sid] ELSE <<>>

\* the two turns are stored assistant first
StoreTurnsSwapped(conversation, user_msg, assistant_msg) ==
    conversation \o <<assistant_msg, user_msg>>

\* conversations[session_id].extend([user_msg, assistant_msg])
StoreTurns(conversation, user_msg, assistant_msg) ==
    conversation \o <<user_msg, assistant_msg>>

\* the conversation is emptied before every store
EnsureConversationResets(convs, sid) == (sid :> <<>>) @@ convs

\* if session_id not in conversations: conversations[session_id] = []
EnsureConversation(convs, sid) ==
    IF sid \in DOMAIN convs THEN convs ELSE (sid :> <<>>) @@ convs

\* the user turn is stored before the controller is called
ConversationsAfterPostUserFirst(convs, sid, user_msg, assistant_msg, failed) ==
    IF failed
    THEN [EnsureConversation(convs, sid) EXCEPT ![sid] = Append(@, user_msg)]
    ELSE [EnsureConversation(convs, sid) EXCEPT ![sid] = StoreTurns(@, user_msg, assistant_msg)]

\* the try block of send_message: the two turns are stored after
\* generate_assistant_response returned, and an exception skips the store
ConversationsAfterPost(convs, sid, user_msg, assistant_msg, failed) ==
    IF failed
    THEN convs
    ELSE [EnsureConversation(convs, sid) EXCEPT ![sid] = StoreTurns(@, user_msg, assistant_msg)]

\* the oldest turns are returned
LimitedMessagesOldest(conversation, limit) ==
    IF Len(conversation) > limit THEN SubSeq(conversation, 1, limit) ELSE conversation

\* conversation[-limit:] if len(conversation) > limit else conversation
LimitedMessages(conversation, limit) ==
    IF Len(conversation) > limit
    THEN SubSeq(conversation, Len(conversation) - limit + 1, Len(conversation))
    ELSE conversation

\* every conversation is emptied when a session is registered
RegisterConversationReset(convs, session_id) ==
    [ s \in DOMAIN convs \cup {session_id} |-> <<>> ]

\* conversations[session_id] = []
RegisterConversation(convs, session_id) == (session_id :> <<>>) @@ convs

\* the session is never looked up
SessionExistsAlways(sess, sid) == TRUE

\* session_id in sessions
SessionExists(sess, sid) == sid \in DOMAIN sess

NotFoundDetail(sid) == <<"Session", ToString(sid), "not", "found">>

\* the detail does not carry the exception
ProcessingErrorDetailBare(e) == <<"Error", "processing", "message">>

\* f"Error processing message: {str(e)}"
ProcessingErrorDetail(e) == <<"Error", "processing", "message:">> \o e

\* the response to an exception no handler caught
InternalServerError == <<"Internal", "Server", "Error">>

\* str(e) of the ValidationError raised when the response is not a string
ResponseNotAString == <<"Input", "should", "be", "a", "valid", "string">>

SessionIdInputs == 0..MaxUuids

InitApp ==
    /\ pc = "not_called"
    /\ state = InitialState(<<>>, <<>>)
    /\ arg = InitialState(<<>>, <<>>)
    /\ outs = NoOutcomes
    /\ trace = <<>>
    /\ writers = {}
    /\ extCalls = {}
    /\ response = None
    /\ engineExc = None
    /\ raisedExc = None
    /\ AppStart

\* the request did not reach agent_graph.query
QueryNotCalled ==
    /\ pc' = "not_called"
    /\ state' = InitialState(<<>>, <<>>)
    /\ arg' = InitialState(<<>>, <<>>)
    /\ outs' = NoOutcomes
    /\ response' = None
    /\ engineExc' = None
    /\ raisedExc' = None
    /\ fmt' = NoFormat
    /\ UNCHANGED <<trace, writers, extCalls, runs>>

\* the request called agent_graph.query, which ended as q
QueryCalled(q, o, f) ==
    /\ pc' = IF q.kind = "raise" THEN "raised" ELSE "returned"
    /\ state' = q.final
    /\ arg' = q.initial
    /\ outs' = [NoOutcomes EXCEPT !.intent = o]
    /\ response' = q.value
    /\ engineExc' = q.engine
    /\ raisedExc' = q.exc
    /\ fmt' = f
    /\ UNCHANGED <<trace, writers, extCalls, runs>>

\* POST /api/v1/chat/create
CreateChatSession ==
    /\ Cardinality(DOMAIN sessions) < MaxSessions
    /\ uuids + 1 <= MaxUuids
    /\ LET session_id == Uuid4(uuids)
           created_at == GetCurrentTime(clock)
       IN  /\ uuids' = session_id
           /\ clock' = created_at
           /\ sessions' = (session_id :> created_at) @@ sessions
           /\ conversations' = RegisterConversation(conversations, session_id)
           /\ posted' = (session_id :> <<>>) @@ posted
           /\ http' = HttpExchange("create", 0, NoBody, None, 201, None,
                                   [session_id |-> session_id, message_id |-> 0],
                                   None, None, created_at, <<>>)
    /\ QueryNotCalled

\* POST /api/v1/chat/{session_id}/messages
SendMessage ==
    /\ uuids + 2 <= MaxUuids
    /\ \E sid \in SessionIdInputs, body \in Bodies,
          o \in AppIntentOutcomes, fault \in EngineFaults :
        LET v == ValidateBody(body)
            message_id == Uuid4(uuids)
            timestamp == GetCurrentTime(clock)
            message == v.request[1].message
            user_msg == ChatMessage(message_id, "user", message, timestamp)
            f == FormatHistoryForLlm(ConversationOf(conversations, sid))
            q == QueryCall(message, f.result, [NoOutcomes EXCEPT !.intent = o], fault)
            assistant_msg_id == Uuid4(message_id)
            assistant_timestamp == GetCurrentTime(timestamp)
            assistant_msg == ChatMessage(assistant_msg_id, "assistant", q.value[1],
                                         assistant_timestamp)
            Failed(status, detail) ==
                http' = HttpExchange("post", sid, body, None, status, Some(detail),
                                     NoIds, None, None, 0, <<>>)
        IN  IF ~v.ok
            THEN /\ Failed(422, <<"validation", "error">>)
                 /\ QueryNotCalled
                 /\ UNCHANGED <<sessions, conversations, uuids, clock, posted>>
            ELSE IF ~SessionExists(sessions, sid)
            THEN /\ Failed(404, NotFoundDetail(sid))
                 /\ QueryNotCalled
                 /\ UNCHANGED <<sessions, conversations, uuids, clock, posted>>
            ELSE IF IsNone(v.request)
            THEN /\ Failed(500, InternalServerError)
                 /\ QueryNotCalled
                 /\ uuids' = message_id
                 /\ clock' = timestamp
                 /\ UNCHANGED <<sessions, conversations, posted>>
            ELSE IF q.kind = "raise" \/ IsNone(q.value)
            THEN /\ Failed(500, ProcessingErrorDetail(
                                  IF q.kind = "raise" THEN q.exc[1] ELSE ResponseNotAString))
                 /\ QueryCalled(q, o, f)
                 /\ uuids' = IF q.kind = "raise" THEN message_id ELSE assistant_msg_id
                 /\ clock' = IF q.kind = "raise" THEN timestamp ELSE assistant_timestamp
                 /\ conversations' = ConversationsAfterPost(conversations, sid, user_msg,
                                                            assistant_msg, TRUE)
                 /\ UNCHANGED <<sessions, posted>>
            ELSE /\ http' = HttpExchange("post", sid, body, None, 200, None,
                                         [session_id |-> 0, message_id |-> message_id],
                                         Some(message), q.value, timestamp, <<>>)
                 /\ QueryCalled(q, o, f)
                 /\ uuids' = assistant_msg_id
                 /\ clock' = assistant_timestamp
                 /\ conversations' = ConversationsAfterPost(conversations, sid, user_msg,
                                                            assistant_msg, FALSE)
                 /\ posted' = [posted EXCEPT ![sid] =
                        Append(@, [user_message |-> message, assistant_response |-> q.value[1]])]
                 /\ UNCHANGED sessions

\* GET /api/v1/chat/{session_id}/messages
GetMessages ==
    \E sid \in SessionIdInputs, limit \in Limits :
        LET v == ValidateLimit(limit)
            conversation == ConversationOf(conversations, sid)
            Answer(status, detail, messages) ==
                http' = HttpExchange("get", sid, NoBody, limit, status, detail,
                                     NoIds, None, None, 0, messages)
        IN  /\ IF ~v.ok
               THEN Answer(422, Some(<<"validation", "error">>), <<>>)
               ELSE IF ~SessionExists(sessions, sid)
               THEN Answer(404, Some(NotFoundDetail(sid)), <<>>)
               ELSE Answer(200, None, LimitedMessages(conversation, v.limit))
            /\ QueryNotCalled
            /\ UNCHANGED <<sessions, conversations, uuids, clock, posted>>

NextApp ==
    \/ CreateChatSession
    \/ SendMessage
    \/ GetMessages

SpecApp == InitApp /\ [][NextApp]_vars

----------------------------------------------------------------------------
(* format_history_for_llm called on its own *)

StoredTurns ==
    { ChatMessage(id, role, content, ts) :
        id \in 1..2, role \in {"user", "assistant"}, content \in Messages, ts \in 1..2 }

StoredHistories == SeqsUpTo(StoredTurns, MaxHistory)

InitFormat ==
    /\ pc = "format_idle"
    /\ state = InitialState(<<>>, <<>>)
    /\ arg = InitialState(<<>>, <<>>)
    /\ outs = NoOutcomes
    /\ trace = <<>>
    /\ writers = {}
    /\ extCalls = {}
    /\ response = None
    /\ engineExc = None
    /\ raisedExc = None
    /\ AppStart

CallFormatHistory ==
    /\ pc = "format_idle"
    /\ \E history \in StoredHistories :
        fmt' = FormatHistoryForLlm(history)
    /\ pc' = "format_returned"
    /\ UNCHANGED <<state, arg, outs, trace, writers, extCalls, response, engineExc,
                   raisedExc, sessions, conversations, uuids, clock, http, posted, runs>>

NextFormat == CallFormatHistory

SpecFormat == InitFormat /\ [][NextFormat]_vars

----------------------------------------------------------------------------
(* Properties of the session store and its endpoints (SpecApp) *)

\* C13: after N message POSTs answered with 200, a session stores exactly 2N
\* turns: turn 2i-1 is the user turn of the i-th POST and turn 2i the
\* assistant turn that answers it.
C13_TwoTurnsPerPost ==
    \A sid \in DOMAIN conversations :
        LET c == conversations[sid]
            p == posted[sid]
        IN  /\ Len(c) = 2 * Len(p)
            /\ \A i \in 1..Len(p) :
                  /\ c[2 * i - 1].role = "user"
                  /\ c[2 * i - 1].content = p[i].user_message
                  /\ c[2 * i].role = "assistant"
                  /\ c[2 * i].content = p[i].assistant_response

C13_Witness ==
    \E sid \in DOMAIN conversations :
        /\ Len(posted[sid]) = 2
        /\ Len(conversations[sid]) = 4
        /\ posted[sid][1].user_message # posted[sid][2].user_message

\* C14: a GET with limit N (1..100, 10 when absent) on an existing session
\* holding L turns answers 200 with the last min(N, L) stored turns in stored
\* order, and leaves the store as it was.
C14_GetReturnsLastTurns ==
    [][ ( /\ http'.op = "get"
          /\ http'.sid \in DOMAIN sessions
          /\ (IsNone(http'.limit) \/ (http'.limit[1] >= 1 /\ http'.limit[1] <= 100)) )
        => LET n == IF IsNone(http'.limit) THEN 10 ELSE http'.limit[1]
               c == conversations[http'.sid]
               k == IF n < Len(c) THEN n ELSE Len(c)
           IN  /\ http'.status = 200
               /\ http'.messages = SubSeq(c, Len(c) - k + 1, Len(c))
               /\ sessions' = sessions
               /\ conversations' = conversations ]_vars

C14_Witness ==
    /\ http.op = "get"
    /\ http.status = 200
    /\ http.limit = Some(2)
    /\ Len(conversations[http.sid]) = 4
    /\ http.messages = SubSeq(conversations[http.sid], 3, 4)

\* the request passes the validation that precedes the handler
PostIsValid(h) == h.body.kind = "none" \/ TruthyStr(h.body.message)

GetIsValid(h) == IsNone(h.limit) \/ (h.limit[1] >= 1 /\ h.limit[1] <= 100)

\* C15 as stated: every message POST and every history GET for a session id
\* that was never created is answered 404.
C15_UnknownSessionAlways404 ==
    ( http.op \in {"post", "get"} /\ http.sid \notin DOMAIN sessions )
    => http.status = 404

\* C15 as amended: a message POST or a history GET for a session id that was
\* never created is answered 404 when the request passes validation, and 422
\* when it does not; in both cases the workflow is not invoked and the store
\* is left unchanged.
C15_UnknownSessionRejected ==
    [][ ( http'.op \in {"post", "get"} /\ http'.sid \notin DOMAIN sessions )
        => /\ http'.status =
                  IF (http'.op = "post" /\ PostIsValid(http'))
                     \/ (http'.op = "get" /\ GetIsValid(http'))
                  THEN 404 ELSE 422
           /\ pc' = "not_called"
           /\ sessions' = sessions
           /\ conversations' = conversations ]_vars

C15_Witness ==
    /\ http.op = "post"
    /\ http.sid \notin DOMAIN sessions
    /\ TruthyStr(http.body.message)
    /\ http.status = 404
    /\ \E sid \in DOMAIN conversations : Len(conversations[sid]) > 0

\* C16: a message POST to an existing session whose message is empty or
\* missing, or that has no body at all, is answered 422 and does not reach
\* the workflow.
C16_EmptyOrMissingMessage422 ==
    ( /\ http.op = "post"
      /\ http.sid \in DOMAIN sessions
      /\ (http.body.kind = "none" \/ ~TruthyStr(http.body.message)) )
    => /\ http.status = 422
       /\ pc = "not_called"

\* C17: when the workflow controller raises during a message POST to an
\* existing session, the response is 500 and its detail contains the
\* exception's message.
C17_ControllerError500 ==
    ( http.op = "post" /\ pc = "raised" )
    => /\ http.status = 500
       /\ TruthyStr(http.detail)
       /\ Contains(http.detail[1], raisedExc[1])

C17_Witness ==
    /\ http.op = "post"
    /\ pc = "raised"
    /\ raisedExc = Some(<<"rate", "limit">>)
    /\ http.status = 500

\* C18: a session creation returns an id that no earlier creation returned,
\* registers it with an empty conversation, and leaves the turns stored for
\* every existing session unchanged.
C18_CreateRegistersFreshSession ==
    [][ http'.op = "create"
        => /\ http'.status = 201
           /\ http'.session_id \notin DOMAIN sessions
           /\ http'.session_id \in DOMAIN sessions'
           /\ http'.session_id \in DOMAIN conversations'
           /\ conversations'[http'.session_id] = <<>>
           /\ \A s \in DOMAIN conversations :
                 /\ s \in DOMAIN conversations'
                 /\ conversations'[s] = conversations[s] ]_vars

C18_Witness ==
    /\ http.op = "create"
    /\ conversations[http.session_id] = <<>>
    /\ \E s \in DOMAIN conversations :
          s # http.session_id /\ Len(conversations[s]) > 0

----------------------------------------------------------------------------
(* Properties of format_history_for_llm (SpecFormat) *)

\* C19: format_history_for_llm returns a list as long as its input whose i-th
\* element is exactly the role and the content of the i-th turn, without
\* identifier or timestamp, and leaves its input as it was.
C19_FormatKeepsRoleAndContent ==
    pc = "format_returned"
    => /\ Len(fmt.result) = Len(fmt.arg)
       /\ \A i \in 1..Len(fmt.arg) :
             /\ DOMAIN fmt.result[i] = {"role", "content"}
             /\ fmt.result[i].role = fmt.arg[i].role
             /\ fmt.result[i].content = fmt.arg[i].content
       /\ fmt.after = fmt.arg

C19_Witness ==
    /\ pc = "format_returned"
    /\ Len(fmt.arg) = 2
    /\ fmt.arg[1].role = "user"
    /\ fmt.arg[2].role = "assistant"
    /\ Len(fmt.result) = 2

----------------------------------------------------------------------------
(* The order of the stages in one call of query (Spec) *)

StageOrder == <<"routing", "intent_classification", "entity_extraction", "answer_generation">>

\* the stage nodes executed so far, in order of execution
RECURSIVE StagesOf(_)
StagesOf(t) ==
    IF Len(t) = 0 THEN <<>>
    ELSE IF t[1].node \in {StageOrder[i] : i \in 1..Len(StageOrder)}
         THEN <<t[1].node>> \o StagesOf(Tail(t))
         ELSE StagesOf(Tail(t))

----------------------------------------------------------------------------
(* Routing and terminals in one call of query (Spec) *)

\* C21: intent classification executes only when the router answered the
\* proceed route; for any other route value, or none, the run goes to the
\* clarification terminal and no later stage executes.
C21_IntentOnlyWhenRouterProceeds ==
    "intent_classification" \in NodesRun
    => /\ RouterProceeds
       /\ state.route = Some("intent_classification")

\* the nodes that end a run: clarification, success and error terminal
TerminalNodes == {"clarification", "answer_generation", "error_handler"}

\* C22: when every stage call returns, the run ends in exactly one of the
\* clarification, success and error terminals, with final_response set.
C22_EndsInOneTerminal ==
    pc \in {"END", "returned"}
    => /\ Cardinality(NodesRun \cap TerminalNodes) = 1
       /\ TruthyStr(state.final_response)

----------------------------------------------------------------------------
(* The routing decisions route_query accepts (SpecStages) *)

\* C29: a routing decision that route_query accepts carries a non-empty
\* clarification message if and only if its route is the clarification route.
C29_MessageIffClarification ==
    ( /\ StageCalled("router")
      /\ pc = "unit_returned"
      /\ outs.router.kind = "ok"
      /\ IsNone(state.error)
      /\ state.route = Some(outs.router.val.route) )
    => ( Len(outs.router.val.clarification_message) > 0
         <=> outs.router.val.route = "ask_clarification" )

----------------------------------------------------------------------------
(* _check_for_errors and _error_node called on their own, as the tests of   *)
(* the graph call them                                                      *)

NodeStates ==
    { GraphState(q, h, route, intent, entities, final, err) :
        q \in {<<"top", "movies">>}, h \in Histories,
        route \in {None},
        intent \in {None, Some([intent |-> "TOP_RATED"])},
        entities \in {None},
        final \in {None, Some(<<"Please", "specify">>)},
        err \in {None, Some(<<>>), Some(<<"Test", "error", "message">>),
                 Some(IntentFailed \o <<"timeout">>)} }

InitNodes ==
    /\ pc = "node_idle"
    /\ state = InitialState(<<>>, <<>>)
    /\ arg = InitialState(<<>>, <<>>)
    /\ outs = NoOutcomes
    /\ trace = <<>>
    /\ writers = {}
    /\ extCalls = {}
    /\ response = None
    /\ engineExc = None
    /\ raisedExc = None
    /\ AppStart

\* method `node` was called on st, left the state as after and returned ret
NodeCalled(node, st, after, ret) ==
    /\ pc' = "node_returned"
    /\ arg' = st
    /\ state' = after
    /\ response' = ret
    /\ trace' = <<[node |-> node, err |-> TruthyStr(after.error)]>>
    /\ writers' = IF after.final_response # st.final_response THEN {node} ELSE {}
    /\ UNCHANGED <<outs, extCalls, engineExc, raisedExc>>
    /\ UNCHANGED appVars

\* _check_for_errors only reads state.get("error"); the string it returns is
\* kept as a one-word string
CallCheckForErrors ==
    /\ pc = "node_idle"
    /\ \E st \in NodeStates :
        NodeCalled("_check_for_errors", st, st, Some(<<CheckForErrors(st)>>))

\* _error_node returns the state it assigned final_response in
CallErrorNode ==
    /\ pc = "node_idle"
    /\ \E st \in NodeStates :
        NodeCalled("_error_node", st, ErrorNode(st), None)

NextNodes ==
    \/ CallCheckForErrors
    \/ CallErrorNode

SpecNodes == InitNodes /\ [][NextNodes]_vars

\* C27: _check_for_errors returns "error" exactly when the error field of the
\* state is set to a non-empty string and "continue" otherwise, and leaves the
\* state as it was.
C27_CheckForErrors ==
    ( pc = "node_returned" /\ trace[1].node = "_check_for_errors" )
    => /\ response = IF Len(arg.error) = 1 /\ arg.error[1] # <<>>
                     THEN Some(<<"error">>) ELSE Some(<<"continue">>)
       /\ state = arg

C27_Witness ==
    /\ pc = "node_returned"
    /\ trace[1].node = "_check_for_errors"
    /\ arg.error = Some(<<"Test", "error", "message">>)
    /\ response = Some(<<"error">>)

\* C28: _error_node sets final_response to a non-empty message that contains
\* the error string of the state verbatim, and leaves every other field,
\* error included, unchanged.
C28_ErrorNodeFrame ==
    ( pc = "node_returned" /\ trace[1].node = "_error_node" )
    => /\ TruthyStr(state.final_response)
       /\ Len(arg.error) = 1 => Contains(state.final_response[1], arg.error[1])
       /\ \A f \in DOMAIN arg \ {"final_response"} : state[f] = arg[f]
       /\ DOMAIN state = DOMAIN arg

C28_Witness ==
    /\ pc = "node_returned"
    /\ trace[1].node = "_error_node"
    /\ arg.error = Some(<<"Test", "error", "message">>)
    /\ arg.final_response = Some(<<"Please", "specify">>)
    /\ state.final_response # arg.final_response
    /\ state.error = arg.error

----------------------------------------------------------------------------
(* The session store under interleaved requests (SpecApp).  The handlers    *)
(* are coroutines without an await, run by one event loop: a request is     *)
(* handled from start to end before the next one, and the interleavings of  *)
(* concurrent requests are the orders in which whole handlers run.          *)

\* the turns stored in all sessions, as (session, index) pairs
StoredTurnPositions ==
    { p \in (DOMAIN conversations) \X (1..MaxUuids) : p[2] <= Len(conversations[p[1]]) }

\* C24: whatever the order in which message POSTs and history GETs are
\* handled, no turn is lost or duplicated, and every stored user turn is
\* immediately followed by the assistant turn produced for it.
C24_NoTurnLostOrDuplicated ==
    /\ \A sid \in DOMAIN conversations :
          LET c == conversations[sid]
          IN  /\ Len(c) = 2 * Len(posted[sid])
              /\ \A i \in 1..Len(posted[sid]) :
                    c[2 * i - 1].content = posted[sid][i].user_message
              /\ \A i \in 1..Len(c) :
                    c[i].role = "user"
                    => /\ i < Len(c)
                       /\ c[i + 1].role = "assistant"
                       /\ c[i + 1].message_id = Uuid4(c[i].message_id)
    /\ \A p1 \in StoredTurnPositions : \A p2 \in StoredTurnPositions :
          p1 # p2
          => conversations[p1[1]][p1[2]].message_id
                 # conversations[p2[1]][p2[2]].message_id

C24_Witness ==
    /\ http.op = "get"
    /\ http.status = 200
    /\ Len(conversations[http.sid]) = 4
    /\ http.messages = conversations[http.sid]
    /\ \E other \in DOMAIN conversations : other # http.sid

\* C25: on a message POST that reaches the controller, the history handed to
\* it is the {role, content} projection of the turns stored in the session
\* before the request, in stored order, without the message being posted; the
\* user turn and then the assistant turn are appended only once the
\* controller has returned.
C25_HistoryIsStoredTurns ==
    [][ ( http'.op = "post" /\ pc' \in {"returned", "raised"} )
        => LET before == conversations[http'.sid]
               after == conversations'[http'.sid]
           IN  /\ fmt'.arg = before
               /\ Len(arg'.conversation_history) = Len(before)
               /\ \A i \in 1..Len(before) :
                     arg'.conversation_history[i] =
                         [role |-> before[i].role, content |-> before[i].content]
               /\ arg'.user_query = http'.body.message[1]
               /\ pc' = "raised" => after = before
               /\ pc' = "returned"
                  => /\ Len(after) = Len(before) + 2
                     /\ SubSeq(after, 1, Len(before)) = before
                     /\ after[Len(before) + 1].role = "user"
                     /\ after[Len(before) + 1].content = http'.body.message[1]
                     /\ after[Len(before) + 2].role = "assistant"
                     /\ after[Len(before) + 2].content = response'[1] ]_vars

C25_Witness ==
    /\ http.op = "post"
    /\ pc = "returned"
    /\ Len(arg.conversation_history) = 2
    /\ arg.conversation_history[1].role = "user"
    /\ arg.conversation_history[1].content # arg.user_query
    /\ Len(conversations[http.sid]) = 4

\* C26: the stored conversations are append-only: across any create, POST or
\* GET, every session stays registered with its creation time, and the turns
\* stored for it before are a prefix of the turns stored for it after.
C26_AppendOnly ==
    [][ /\ \A s \in DOMAIN sessions :
              s \in DOMAIN sessions' /\ sessions'[s] = sessions[s]
        /\ \A s \in DOMAIN conversations :
              /\ s \in DOMAIN conversations'
              /\ Len(conversations[s]) <= Len(conversations'[s])
              /\ SubSeq(conversations'[s], 1, Len(conversations[s])) = conversations[s]
      ]_vars

C26_Witness ==
    /\ http.op = "create"
    /\ \E s \in DOMAIN conversations : Len(conversations[s]) = 4

\* C30: when the controller raises during a message POST, the turns stored
\* for the session are what they were before the request: their number stays
\* even and user and assistant turns still alternate.
C30_FailedPostStoresNothing ==
    [][ ( http'.op = "post" /\ pc' = "raised" )
        => /\ conversations' = conversations
           /\ LET c == conversations'[http'.sid]
              IN  /\ Len(c) % 2 = 0
                  /\ \A i \in 1..Len(c) :
                        c[i].role = IF i % 2 = 1 THEN "user" ELSE "assistant" ]_vars

C30_Witness ==
    /\ http.op = "post"
    /\ pc = "raised"
    /\ http.status = 500
    /\ Len(conversations[http.sid]) = 2

----------------------------------------------------------------------------
(* Two calls of query side by side, interleaved node by node.  Each call    *)
(* builds initial_state as a local dict and hands it to graph.invoke; the   *)
(* node methods read and write only the state they are handed.              *)

RunHistories == { <<>>, <<[role |-> "user", content |-> <<"hi">>]>> }

\* the state LangGraph hands to a node of run r is run 1's
StateOfShared(rs, r) == rs[1].state

\* the state LangGraph hands to a node of run r: the one built by that call
StateOf(rs, r) == rs[r].state

RunMidway(rs, r) == rs[r].pc \in {"intent_classification", "error_handler", "END"}

\* run r executed a step while another run was between its start and its end
Overlap(rs, r) == rs[r].overlapped \/ \E other \in RunIds \ {r} : RunMidway(rs, other)

InitRuns ==
    /\ pc = "runs"
    /\ state = InitialState(<<>>, <<>>)
    /\ arg = InitialState(<<>>, <<>>)
    /\ outs = NoOutcomes
    /\ trace = <<>>
    /\ writers = {}
    /\ extCalls = {}
    /\ response = None
    /\ engineExc = None
    /\ raisedExc = None
    /\ AppStart

RunsOnly ==
    UNCHANGED <<pc, state, arg, outs, trace, writers, extCalls, response, engineExc,
                raisedExc, sessions, conversations, uuids, clock, http, posted, fmt>>

\* run r: query builds initial_state and calls graph.invoke
RunQuery(r) ==
    /\ runs[r].pc = "idle"
    /\ \E q \in Queries, h \in RunHistories, o \in AppIntentOutcomes, fault \in EngineFaults :
        runs' = [runs EXCEPT ![r] =
                    [ pc |-> EntryNode, state |-> InitialState(q, h),
                      arg |-> InitialState(q, h), out |-> o, fault |-> fault,
                      response |-> None, exc |-> None, overlapped |-> FALSE ]]
    /\ RunsOnly

\* run r: the intent_classification node, or graph.invoke raising
RunIntentNode(r) ==
    /\ runs[r].pc = "intent_classification"
    /\ IF runs[r].fault # None
       THEN LET e == QueryOnEngineError(runs[r].fault[1])
            IN  runs' = [runs EXCEPT ![r].pc = IF e.kind = "raise" THEN "raised" ELSE "returned",
                                     ![r].response = e.value,
                                     ![r].exc = e.exc,
                                     ![r].overlapped = Overlap(runs, r)]
       ELSE LET n == IntentNode(StateOf(runs, r), runs[r].out)
            IN  runs' = [runs EXCEPT ![r].state = n.st,
                                     ![r].pc = AfterIntent(n.st),
                                     ![r].overlapped = Overlap(runs, r)]
    /\ RunsOnly

\* run r: the error_handler node
RunErrorNode(r) ==
    /\ runs[r].pc = "error_handler"
    /\ runs' = [runs EXCEPT ![r].state = ErrorNode(StateOf(runs, r)),
                            ![r].pc = AfterError,
                            ![r].overlapped = Overlap(runs, r)]
    /\ RunsOnly

\* run r: graph.invoke returned and query returns its response
RunReturn(r) ==
    /\ runs[r].pc = "END"
    /\ runs' = [runs EXCEPT ![r].response = QueryResponse(StateOf(runs, r)),
                            ![r].pc = "returned",
                            ![r].overlapped = Overlap(runs, r)]
    /\ RunsOnly

NextRuns ==
    \E r \in RunIds :
        \/ RunQuery(r)
        \/ RunIntentNode(r)
        \/ RunErrorNode(r)
        \/ RunReturn(r)

SpecRuns == InitRuns /\ [][NextRuns]_vars

\* C23: of two calls of query interleaved node by node, each works on the
\* state it built itself, with error and outputs unset: what one call writes
\* is not seen by the other, and each call ends with the final state and the
\* response it has when it runs alone with the same stage outcomes.
C23_RunsAreIndependent ==
    \A r \in RunIds :
        /\ runs[r].pc # "idle"
           => runs[r].arg = InitialState(runs[r].arg.user_query,
                                         runs[r].arg.conversation_history)
        /\ runs[r].pc \in {"returned", "raised"}
           => LET alone == QueryCall(runs[r].arg.user_query,
                                     runs[r].arg.conversation_history,
                                     [NoOutcomes EXCEPT !.intent = runs[r].out],
                                     runs[r].fault)
              IN  /\ runs[r].pc = IF alone.kind = "raise" THEN "raised" ELSE "returned"
                  /\ runs[r].response = alone.value
                  /\ runs[r].exc = alone.exc
                  /\ runs[r].state = alone.final

C23_Witness ==
    /\ runs[1].pc = "returned"
    /\ runs[1].overlapped
    /\ IsNone(runs[1].state.error)
    /\ TruthyObj(runs[1].state.intent)
    /\ runs[2].pc = "returned"
    /\ runs[2].overlapped
    /\ TruthyStr(runs[2].state.error)
    /\ runs[2].arg.user_query # runs[1].arg.user_query

====
